---- MODULE Spec2Model ----
(***************************************************************************)
(* State-machine model of youtube-transcript-plus (src/src/index.ts,       *)
(* src/src/utils.ts, the cache adapters).                                  *)
(*                                                                         *)
(* A call of fetchTranscript or checkTranscriptAvailability is a record    *)
(* that moves from one await to the next: page request, player request,    *)
(* cache lookup, transcript request, cache store.  The responses of the    *)
(* three transports are inputs chosen by the environment.  The cache is    *)
(* the CacheStrategy collaborator shared by the calls.                     *)
(*                                                                         *)
(* JavaScript values are encoded so that TLC compares like with like:      *)
(* `undefined` is the string Undef, an HTTP body or a JSON document is a   *)
(* record of the features the code inspects, a string held by the cache is *)
(* a record [kind, valid, items].  Left out because no branch depends on   *)
(* them: userAgent, disableHttps (it only rewrites the URL scheme) and the *)
(* request headers.                                                        *)
(***************************************************************************)
EXTENDS Naturals, Sequences, FiniteSets, TLC

(* ------------------------------ bounds --------------------------------- *)

\* longest captionTracks array a player response carries
MaxTracks == 3
\* longest transcript payload, in chunks (a cue record or other text)
MaxChunks == 3
\* the last reading of the clock Date.now()
MaxTime == 2
\* most invocations made of a cache adapter
MaxOps == 3

(* ------------------------------ values --------------------------------- *)

Undef == "undefined"

\* JavaScript truthiness of a string-or-undefined value
Truthy(s) == s # Undef /\ s # ""

SeqsUpTo(S, n) == UNION {[1..k -> S] : k \in 0..n}

\* the two calls the environment makes, and the public operations
Procs == {1, 2}
Ops == {"fetchTranscript", "checkTranscriptAvailability"}

\* config.lang
ReqLangs == {Undef, "en", "fr"}

\* raw inputs: a bare identifier, a short link, a string of no known shape
VideoInputs == {"dQw4w9WgXcQ", "https://youtu.be/dQw4w9WgXcQ", "invalidVideoId"}

\* the shapes RE_YOUTUBE knows: a watch-page link with the query parameter, a
\* short link; the 11 characters captured; what may follow them
UrlPrefixes == {"https://www.youtube.com/watch?v=", "https://youtu.be/"}
IdTexts == {"dQw4w9WgXcQ", "jNQXAC9IVRw"}
UrlSuffixes == {"", "&t=42s", "0"}

\* RE_YOUTUBE applied to an input: the 11 characters captured after a known
\* prefix, Undef for no match
MatchYoutube(videoId) ==
  LET Captured == {id \in IdTexts :
                     \E pre \in UrlPrefixes, suf \in UrlSuffixes :
                        videoId = pre \o id \o suf}
  IN  IF Captured = {} THEN Undef ELSE CHOOSE id \in Captured : TRUE

\* mutant: the length test accepts longer inputs too
retrieveVideoId_atLeast(videoId) ==
  IF Len(videoId) >= 11 THEN videoId
  ELSE MatchYoutube(videoId)

\* retrieveVideoId: the identifier, or Undef when the error is thrown
retrieveVideoId(videoId) ==
  IF Len(videoId) = 11 THEN videoId
  ELSE MatchYoutube(videoId)

(* --------------------------- page response ----------------------------- *)

\* body features: the recaptcha marker, the key in inline JSON, the key in
\* escaped JSON
PageResponses ==
  [ok : BOOLEAN, recaptcha : BOOLEAN, inlineKey : BOOLEAN, escapedKey : BOOLEAN]

\* mutant: the key is looked for before the recaptcha marker
PageClass_keyFirst(r) ==
  IF ~r.ok THEN "VideoUnavailable"
  ELSE IF r.inlineKey \/ r.escapedKey THEN "key"
  ELSE IF r.recaptcha THEN "TooManyRequests"
  ELSE "TranscriptNotAvailable"

\* outcome of lines 53-72: an error kind, or "key"
PageClass(r) ==
  IF ~r.ok THEN "VideoUnavailable"
  ELSE IF r.recaptcha THEN "TooManyRequests"
  ELSE IF ~(r.inlineKey \/ r.escapedKey) THEN "TranscriptNotAvailable"
  ELSE "key"

\* the key of lines 65-72: the first pattern's capture, else the second's
apiKey(r) == IF r.inlineKey THEN "inlineKey" ELSE "escapedKey"

(* -------------------------- player response ---------------------------- *)

\* caption tracks as the platform may send them
TrackEn    == [languageCode |-> "en",  baseUrl |-> "https://t/en&fmt=srv3", url |-> Undef]
TrackEs    == [languageCode |-> "es",  baseUrl |-> Undef, url |-> "https://t/es"]
TrackNoLc  == [languageCode |-> Undef, baseUrl |-> "https://t/xx", url |-> Undef]
TrackNoUrl == [languageCode |-> "en",  baseUrl |-> Undef, url |-> Undef]
Tracks == {TrackEn, TrackEs, TrackNoLc, TrackNoUrl}
TrackSeqs == SeqsUpTo(Tracks, MaxTracks)

\* a playerCaptionsTracklistRenderer: absent, or present with captionTracks an
\* array or not
NoRenderer == [present |-> FALSE, isArray |-> FALSE, captionTracks |-> <<>>]
Renderers ==
  {NoRenderer, [present |-> TRUE, isArray |-> FALSE, captionTracks |-> <<>>]}
  \cup {[present |-> TRUE, isArray |-> TRUE, captionTracks |-> t] : t \in TrackSeqs}

\* the player JSON: `captions` (with its renderer, if any), the top-level
\* renderer, playabilityStatus.status.  Beside a nested renderer the top-level
\* one is absent or OtherRenderer.
Statuses == {"OK", "UNPLAYABLE"}
OtherRenderer == [present |-> TRUE, isArray |-> TRUE, captionTracks |-> <<TrackEs>>]
PlayerJsons ==
  {[captions |-> c, nested |-> NoRenderer, top |-> t, status |-> st] :
     c \in BOOLEAN, t \in Renderers, st \in Statuses}
  \cup {[captions |-> TRUE, nested |-> n, top |-> t, status |-> st] :
          n \in Renderers \ {NoRenderer}, t \in {NoRenderer, OtherRenderer},
          st \in Statuses}

NoJson == [captions |-> FALSE, nested |-> NoRenderer, top |-> NoRenderer, status |-> Undef]

\* the player response: its HTTP status and, when it is a success, its JSON
PlayerResponsesOver(J) ==
  {[ok |-> FALSE, json |-> NoJson]} \cup {[ok |-> TRUE, json |-> j] : j \in J}

PlayerResponses == PlayerResponsesOver(PlayerJsons)

(* ------------------------------ errors --------------------------------- *)

NoError == [kind |-> "none", identifier |-> Undef, lang |-> Undef, availableLanguages |-> <<>>]

\* the error classes of ./errors that carry the identifier (or nothing)
Err(kind, identifier) ==
  [kind |-> kind, identifier |-> identifier, lang |-> Undef, availableLanguages |-> <<>>]

\* mutant: the languages filtered by the request
LanguageErr_filtered(lang, langs, identifier) ==
  [kind |-> "LanguageNotAvailable", identifier |-> identifier, lang |-> lang,
   availableLanguages |-> SelectSeq(langs, LAMBDA x : x = lang)]

\* new YoutubeTranscriptNotAvailableLanguageError(lang, availableLanguages, identifier)
LanguageErr(lang, langs, identifier) ==
  [kind |-> "LanguageNotAvailable", identifier |-> identifier, lang |-> lang,
   availableLanguages |-> langs]

(* ----------------------------- discovery ------------------------------- *)

\* playerJson?.captions?.playerCaptionsTracklistRenderer ??
\* playerJson?.playerCaptionsTracklistRenderer
tracklist(json) ==
  IF json.captions /\ json.nested.present THEN json.nested ELSE json.top

\* mutant: the status compared in the wrong case
isPlayableOk_wrongCase(json) == json.status = "ok"

isPlayableOk(json) == json.status = "OK"

\* mutant: && for ||
captionsMissing_and(json) == ~json.captions /\ ~tracklist(json).present

\* !playerJson?.captions || !tracklist
captionsMissing(json) == ~json.captions \/ ~tracklist(json).present

\* !Array.isArray(tracks) || tracks.length === 0
noTracks(json) ==
  ~tracklist(json).isArray \/ Len(tracklist(json).captionTracks) = 0

\* tracks.map((t) => t.languageCode).filter(Boolean)
RECURSIVE availableLanguages(_)
availableLanguages(tracks) ==
  IF tracks = <<>> THEN <<>>
  ELSE (IF Truthy(Head(tracks).languageCode) THEN <<Head(tracks).languageCode>> ELSE <<>>)
       \o availableLanguages(Tail(tracks))

\* mutant: the last match instead of the first
findIndex_last(tracks, lang) ==
  LET hits == {i \in DOMAIN tracks : tracks[i].languageCode = lang}
  IN  IF hits = {} THEN 0 ELSE CHOOSE i \in hits : \A j \in hits : i >= j

\* tracks.find((t) => t.languageCode === lang): the index found, 0 for none
findIndex(tracks, lang) ==
  LET hits == {i \in DOMAIN tracks : tracks[i].languageCode = lang}
  IN  IF hits = {} THEN 0 ELSE CHOOSE i \in hits : \A j \in hits : i <= j

\* lang ? tracks.find(...) : tracks[0]   (tracks is not empty here)
selectedTrack(tracks, lang) ==
  IF Truthy(lang) THEN findIndex(tracks, lang) ELSE 1

\* transcriptUrl.replace(/&fmt=[^&]+$/, '') on the URLs of Tracks
stripFmt(u) == IF u = "https://t/en&fmt=srv3" THEN "https://t/en" ELSE u

\* selectedTrack.baseUrl || selectedTrack.url
trackUrl(t) == IF Truthy(t.baseUrl) THEN t.baseUrl ELSE t.url

NoMeta ==
  [identifier |-> Undef, transcriptUrl |-> Undef, selectedLanguage |-> Undef,
   availableLanguages |-> <<>>]

\* lines 98-151 of _getCaptionTrackMetadata: what the player response makes of
\* the call, an error or the CaptionTrackMetadata
playerOutcome(identifier, lang, r) ==
  LET json   == r.json
      tracks == tracklist(json).captionTracks
      langs  == availableLanguages(tracks)
      sel    == selectedTrack(tracks, lang)
      fail(e) == [error |-> e, metadata |-> NoMeta]
  IN  IF ~r.ok THEN fail(Err("VideoUnavailable", identifier))
      ELSE IF captionsMissing(json)
        THEN IF isPlayableOk(json)
               THEN fail(Err("TranscriptsDisabled", identifier))
               ELSE fail(Err("TranscriptNotAvailable", identifier))
      ELSE IF noTracks(json) THEN fail(Err("TranscriptsDisabled", identifier))
      ELSE IF sel = 0 THEN fail(LanguageErr(lang, langs, identifier))
      ELSE IF ~Truthy(trackUrl(tracks[sel]))
        THEN fail(Err("TranscriptNotAvailable", identifier))
      ELSE [error |-> NoError,
            metadata |-> [identifier |-> identifier,
                          transcriptUrl |-> stripFmt(trackUrl(tracks[sel])),
                          selectedLanguage |-> tracks[sel].languageCode,
                          availableLanguages |-> langs]]

(* ------------------------- transcript payload -------------------------- *)

\* a payload is a sequence of chunks: text that RE_XML_TRANSCRIPT matches (a
\* cue, with its three captured fields) or text that it skips
CueA == [cue |-> TRUE,  start |-> "0",   dur |-> "1.5", text |-> "hi"]
CueB == [cue |-> TRUE,  start |-> "1.5", dur |-> "",    text |-> "yo"]
Junk == [cue |-> FALSE, start |-> "",    dur |-> "",    text |-> "<p>yo</p>"]
Chunks == {CueA, CueB, Junk}
Bodies == SeqsUpTo(Chunks, MaxChunks)

TranscriptResponses ==
  {[ok |-> TRUE, status |-> 200, body |-> b] : b \in Bodies}
  \cup {[ok |-> FALSE, status |-> st, body |-> <<>>] : st \in {429, 404}}

\* [...transcriptBody.matchAll(RE_XML_TRANSCRIPT)]: the cues, in source order
matchAll(body) == SelectSeq(body, LAMBDA c : c.cue)

\* parseFloat on the captured fields "0", "1.5" and ""
parseFloat(str) == IF str = "" THEN "NaN" ELSE str

\* mutant: the first captured field taken for the duration, the second for
\* the offset
parseTranscript_swapped(body, lang, selectedLanguage) ==
  LET results == matchAll(body)
  IN  [i \in DOMAIN results |->
         [text |-> results[i].text,
          duration |-> parseFloat(results[i].start),
          offset |-> parseFloat(results[i].dur),
          lang |-> IF lang # Undef THEN lang ELSE selectedLanguage]]

\* results.map((m) => ({text: m[3], duration: parseFloat(m[2]),
\*                      offset: parseFloat(m[1]), lang: lang ?? selectedLanguage}))
parseTranscript(body, lang, selectedLanguage) ==
  LET results == matchAll(body)
  IN  [i \in DOMAIN results |->
         [text |-> results[i].text,
          duration |-> parseFloat(results[i].dur),
          offset |-> parseFloat(results[i].start),
          lang |-> IF lang # Undef THEN lang ELSE selectedLanguage]]

(* ------------------------ strings in the cache ------------------------- *)

\* cache.get's null
Null == [kind |-> "null", valid |-> FALSE, items |-> <<>>]

\* a string: JSON text holding the array `items`, or text that is no JSON
JsonText(items) == [kind |-> "string", valid |-> TRUE, items |-> items]
Garbage == [kind |-> "string", valid |-> FALSE, items |-> <<>>]

\* JSON.stringify writes a NaN as null (and leaves out an undefined lang, which
\* reads back as undefined)
jsonNumber(n) == IF n = "NaN" THEN "null" ELSE n

\* JSON.stringify(transcript)
JSONstringify(transcript) ==
  JsonText([i \in DOMAIN transcript |->
              [transcript[i] EXCEPT !.duration = jsonNumber(@),
                                    !.offset = jsonNumber(@)]])

\* JSON.parse(cached): the value, or the SyntaxError
JSONparse(str) == [threw |-> ~str.valid, value |-> str.items]

\* `yt:transcript:${identifier}:${lang ?? ''}`
\* mutant: the key names the video only
cacheKey_noLang(identifier, lang) == "yt:transcript:" \o identifier

\* mutant: the key names the language only
cacheKey_noVideo(identifier, lang) ==
  "yt:transcript:" \o (IF lang = Undef THEN "" ELSE lang)

cacheKey(identifier, lang) ==
  "yt:transcript:" \o identifier \o ":" \o (IF lang = Undef THEN "" ELSE lang)

\* the arguments and languages of the calls that share a cache: one video as
\* identifier and as link, another video; no language, en, es
KeyVideoInputs == {"dQw4w9WgXcQ", "https://youtu.be/dQw4w9WgXcQ", "jNQXAC9IVRw"}
KeyLangs == {Undef, "en", "es"}

Identifiers == {retrieveVideoId(v) : v \in VideoInputs \cup KeyVideoInputs} \ {Undef}
Keys == {cacheKey(i, l) : i \in Identifiers, l \in ReqLangs \cup KeyLangs}

\* what a cache handed to the library may already hold under a key
StoredSegment == [text |-> "old", duration |-> "2", offset |-> "0", lang |-> "en"]
PreloadedValues == {Null, Garbage, JsonText(<<>>), JsonText(<<StoredSegment>>)}

(* ------------------------------- calls --------------------------------- *)

NoPage == [ok |-> FALSE, recaptcha |-> FALSE, inlineKey |-> FALSE, escapedKey |-> FALSE]
NoPlayer == [ok |-> FALSE, json |-> NoJson]
NoPayload == [ok |-> FALSE, status |-> 0, body |-> <<>>]
NoAvailability ==
  [videoId |-> Undef, available |-> FALSE, transcriptUrl |-> Undef,
   selectedLanguage |-> Undef, availableLanguages |-> <<>>]

\* A call.  op, videoId, lang, hasCache: the operation, its argument and the
\* config; pc: the await the call is suspended at ("page", "player",
\* "cacheGet", "transcript", "cacheSet") or how it ended ("returned",
\* "thrown"); last: the step that ran last; requests: the outbound requests
\* issued so far, in order; page, player: the response the last step
\* inspected (locals of _getCaptionTrackMetadata, gone with the next step);
\* apiKey: the key the page yielded, sent with the player request; payload:
\* the transcript response the last step inspected;
\* metadata, cached, segments: the locals of fetchTranscript; error,
\* availability, segments: what the caller gets; fromCache: the return was
\* line 192's.
IdleCall ==
  [op |-> Undef, videoId |-> Undef, lang |-> Undef, hasCache |-> FALSE,
   pc |-> "idle", last |-> "none", identifier |-> Undef, requests |-> <<>>,
   page |-> NoPage, apiKey |-> Undef, player |-> NoPlayer,
   metadata |-> NoMeta, cached |-> Null, payload |-> NoPayload, error |-> NoError, availability |-> NoAvailability,
   segments |-> <<>>, fromCache |-> FALSE]

throw(c, step, e) == [c EXCEPT !.pc = "thrown", !.last = step, !.error = e]

\* the call up to its first await: retrieveVideoId, then the page request
\* (index.ts 41-51)
begin(op, videoId, lang, hasCache) ==
  LET c  == [IdleCall EXCEPT !.op = op, !.videoId = videoId, !.lang = lang,
                             !.hasCache = hasCache]
      id == retrieveVideoId(videoId)
  IN  IF id = Undef THEN throw(c, "begin", Err("InvalidVideoId", Undef))
      ELSE [c EXCEPT !.pc = "page", !.last = "begin", !.identifier = id,
                     !.requests = <<"page">>]

\* mutant: a page refused is requested once more
onPage_retry(c, r) ==
  IF ~r.ok /\ Len(c.requests) < 3
    THEN [c EXCEPT !.page = r, !.last = "page", !.requests = Append(@, "page")]
  ELSE IF PageClass(r) = "key"
    THEN [c EXCEPT !.page = r, !.pc = "player", !.last = "page",
                   !.apiKey = apiKey(r), !.requests = Append(@, "player")]
  ELSE throw([c EXCEPT !.page = r], "page", Err(PageClass(r), c.identifier))

\* the page response arrives: classification, then the player request
\* (index.ts 53-96)
onPage(c, r) ==
  LET class == PageClass(r)
      d     == [c EXCEPT !.page = r]
  IN  IF class = "key"
        THEN [d EXCEPT !.pc = "player", !.last = "page", !.apiKey = apiKey(r),
                       !.requests = Append(@, "player")]
      ELSE IF class = "TooManyRequests" THEN throw(d, "page", Err(class, Undef))
      ELSE throw(d, "page", Err(class, c.identifier))

\* mutant: checkTranscriptAvailability goes on like fetchTranscript
afterDiscovery_goesOn(c) ==
  IF c.hasCache THEN [c EXCEPT !.pc = "cacheGet"]
  ELSE [c EXCEPT !.pc = "transcript", !.requests = Append(@, "transcript")]

\* mutant: the availability names the video by the argument of the call
afterDiscovery_rawVideoId(c) ==
  IF c.op = "checkTranscriptAvailability"
    THEN [c EXCEPT !.pc = "returned",
                   !.availability =
                      [videoId |-> c.videoId, available |-> TRUE,
                       transcriptUrl |-> c.metadata.transcriptUrl,
                       selectedLanguage |-> c.metadata.selectedLanguage,
                       availableLanguages |-> c.metadata.availableLanguages]]
  ELSE IF c.hasCache THEN [c EXCEPT !.pc = "cacheGet"]
  ELSE [c EXCEPT !.pc = "transcript", !.requests = Append(@, "transcript")]

\* the step after a successful discovery (index.ts 164-172, 184-202)
afterDiscovery(c) ==
  IF c.op = "checkTranscriptAvailability"
    THEN [c EXCEPT !.pc = "returned",
                   !.availability =
                      [videoId |-> c.metadata.identifier, available |-> TRUE,
                       transcriptUrl |-> c.metadata.transcriptUrl,
                       selectedLanguage |-> c.metadata.selectedLanguage,
                       availableLanguages |-> c.metadata.availableLanguages]]
  ELSE IF c.hasCache THEN [c EXCEPT !.pc = "cacheGet"]
  ELSE [c EXCEPT !.pc = "transcript", !.requests = Append(@, "transcript")]

\* mutant: checkTranscriptAvailability answers where captions are disabled
onPlayer_checkLenient(c, r) ==
  LET out == playerOutcome(c.identifier, c.lang, r)
      d   == [c EXCEPT !.page = NoPage, !.apiKey = Undef, !.player = r,
                       !.last = "player"]
  IN  IF out.error.kind = "TranscriptsDisabled" /\ c.op = "checkTranscriptAvailability"
        THEN [d EXCEPT !.pc = "returned"]
      ELSE IF out.error # NoError THEN throw(d, "player", out.error)
      ELSE afterDiscovery([d EXCEPT !.metadata = out.metadata])

\* the player response arrives (index.ts 98-151, then the caller's next step)
onPlayer(c, r) ==
  LET out == playerOutcome(c.identifier, c.lang, r)
      d   == [c EXCEPT !.page = NoPage, !.apiKey = Undef, !.player = r,
                       !.last = "player"]
  IN  IF out.error # NoError THEN throw(d, "player", out.error)
      ELSE afterDiscovery([d EXCEPT !.metadata = out.metadata])

\* mutant: the parse error of a stored value leaves fetchTranscript
onCacheGet_parseThrows(c, cached) ==
  LET d == [c EXCEPT !.player = NoPlayer, !.last = "cacheGet", !.cached = cached]
  IN  IF cached = Null
        THEN [d EXCEPT !.pc = "transcript", !.requests = Append(@, "transcript")]
      ELSE IF JSONparse(cached).threw
        THEN throw(d, "cacheGet", Err("SyntaxError", Undef))
      ELSE [d EXCEPT !.pc = "returned", !.segments = JSONparse(cached).value,
                     !.fromCache = TRUE]

\* cache.get has answered `cached` (index.ts 189-202)
onCacheGet(c, cached) ==
  LET d == [c EXCEPT !.player = NoPlayer, !.last = "cacheGet", !.cached = cached]
  IN  IF cached # Null /\ ~JSONparse(cached).threw
        THEN [d EXCEPT !.pc = "returned", !.segments = JSONparse(cached).value,
                       !.fromCache = TRUE]
      ELSE [d EXCEPT !.pc = "transcript", !.requests = Append(@, "transcript")]

\* cache.get has rejected: the await of line 189 stands outside the try of
\* lines 191-195, the rejection leaves fetchTranscript
onCacheGetError(c) ==
  throw([c EXCEPT !.player = NoPlayer], "cacheGetError", Err("CacheFailure", Undef))

\* mutant: a payload without a cue goes to the store like any other
onTranscript_storesEmpty(c, r) ==
  LET d == [c EXCEPT !.player = NoPlayer, !.last = "transcript", !.payload = r]
      transcript == parseTranscript(r.body, c.lang, c.metadata.selectedLanguage)
  IN  IF ~r.ok
        THEN IF r.status = 429
               THEN throw(d, "transcript", Err("TooManyRequests", Undef))
               ELSE throw(d, "transcript", Err("TranscriptNotAvailable", c.identifier))
      ELSE [d EXCEPT !.segments = transcript,
                     !.pc = IF c.hasCache THEN "cacheSet" ELSE "returned"]

\* mutant: a refused transcript request is never taken for rate limiting
onTranscript_no429(c, r) ==
  LET d == [c EXCEPT !.player = NoPlayer, !.last = "transcript", !.payload = r]
      transcript == parseTranscript(r.body, c.lang, c.metadata.selectedLanguage)
  IN  IF ~r.ok \/ Len(transcript) = 0
        THEN throw(d, "transcript", Err("TranscriptNotAvailable", c.identifier))
      ELSE [d EXCEPT !.segments = transcript,
                     !.pc = IF c.hasCache THEN "cacheSet" ELSE "returned"]

\* the transcript response arrives (index.ts 204-235)
onTranscript(c, r) ==
  LET d == [c EXCEPT !.player = NoPlayer, !.last = "transcript", !.payload = r]
      transcript == parseTranscript(r.body, c.lang, c.metadata.selectedLanguage)
  IN  IF ~r.ok
        THEN IF r.status = 429
               THEN throw(d, "transcript", Err("TooManyRequests", Undef))
               ELSE throw(d, "transcript", Err("TranscriptNotAvailable", c.identifier))
      ELSE IF Len(transcript) = 0
        THEN throw(d, "transcript", Err("TranscriptNotAvailable", c.identifier))
      ELSE [d EXCEPT !.segments = transcript,
                     !.pc = IF c.hasCache THEN "cacheSet" ELSE "returned"]

\* cache.set has completed (index.ts 229-235)
onCacheSet(c) == [c EXCEPT !.pc = "returned", !.last = "cacheSet"]

\* mutant: the rejection of cache.set leaves fetchTranscript
onCacheSetError_rethrown(c) ==
  throw(c, "cacheSetError", Err("CacheFailure", Undef))

\* cache.set has rejected: caught at lines 230-232, line 235 returns
onCacheSetError(c) == [c EXCEPT !.pc = "returned", !.last = "cacheSetError"]

(* ----------------------------- defaultFetch ---------------------------- *)

DEFAULT_USER_AGENT == "Mozilla/5.0"

\* headers as a record over the names that occur; Undef for a name not there
HeaderNames == {"User-Agent", "Accept-Language", "Content-Type"}
NoHeaders == [h \in HeaderNames |-> Undef]
ExplicitHeaders ==
  {NoHeaders,
   [NoHeaders EXCEPT !["Content-Type"] = "application/json"],
   [NoHeaders EXCEPT !["User-Agent"] = "Explicit Agent"],
   [NoHeaders EXCEPT !["Accept-Language"] = "de"],
   [NoHeaders EXCEPT !["User-Agent"] = "Explicit Agent", !["Accept-Language"] = "de"]}

\* FetchParams; headers left out is the default {}
FetchParams ==
  [url : {"https://example.com"}, lang : {Undef, "", "en"},
   userAgent : {Undef, "", "Test Agent"}, method : {Undef, "GET", "POST", "PUT"},
   body : {Undef, "", "data"}, headers : ExplicitHeaders]

\* {...a, ...b}
spread(a, b) == [h \in HeaderNames |-> IF b[h] # Undef THEN b[h] ELSE a[h]]

\* mutant: the defaults are spread over the explicit headers
defaultFetch_defaultsLast(params) ==
  LET method == IF params.method = Undef THEN "GET" ELSE params.method
      fetchHeaders ==
        spread(spread(params.headers,
                      [NoHeaders EXCEPT !["User-Agent"] =
                          IF Truthy(params.userAgent) THEN params.userAgent
                          ELSE DEFAULT_USER_AGENT]),
               IF Truthy(params.lang)
                 THEN [NoHeaders EXCEPT !["Accept-Language"] = params.lang]
                 ELSE NoHeaders)
  IN  [url |-> params.url, method |-> method, headers |-> fetchHeaders,
       body |-> IF Truthy(params.body) /\ method = "POST" THEN params.body ELSE Undef]

\* defaultFetch: the url and the options handed to fetch (utils.ts 16-34)
defaultFetch(params) ==
  LET method == IF params.method = Undef THEN "GET" ELSE params.method
      fetchHeaders ==
        spread(spread([NoHeaders EXCEPT !["User-Agent"] =
                          IF Truthy(params.userAgent) THEN params.userAgent
                          ELSE DEFAULT_USER_AGENT],
                      IF Truthy(params.lang)
                        THEN [NoHeaders EXCEPT !["Accept-Language"] = params.lang]
                        ELSE NoHeaders),
               params.headers)
  IN  [url |-> params.url, method |-> method, headers |-> fetchHeaders,
       body |-> IF Truthy(params.body) /\ method = "POST" THEN params.body ELSE Undef]

NoFetch ==
  [called |-> FALSE,
   params |-> [url |-> Undef, lang |-> Undef, userAgent |-> Undef, method |-> Undef,
               body |-> Undef, headers |-> NoHeaders],
   options |-> [url |-> Undef, method |-> Undef, headers |-> NoHeaders, body |-> Undef]]

(* ---------------------------- cache adapters --------------------------- *)

AdapterKeys == {"yt:transcript:dQw4w9WgXcQ:", "yt:transcript:dQw4w9WgXcQ:en"}
NoEntry == [present |-> FALSE, value |-> Undef, expires |-> 0]

\* the strings stored, and the null a get answers without a live entry
Values == {"v1", "v2"}
NullValue == "null"

\* the ttl argument of set: left out, or a number of clock units
NoTTL == [given |-> FALSE, ms |-> 0]
TTLs == {NoTTL} \cup {[given |-> TRUE, ms |-> t] : t \in {0, 2}}

\* the sets made of an adapter: any value and ttl under one key, one value
\* under the other
SetArgs ==
  {<<"yt:transcript:dQw4w9WgXcQ:", v, ttl>> : v \in Values, ttl \in TTLs}
  \cup {<<"yt:transcript:dQw4w9WgXcQ:en", "v2", NoTTL>>}

\* the defaultTTL the adapter was constructed with
defaultTTL == 1

\* Date.now() + (ttl ?? this.defaultTTL)
expiry(ttl, t) == t + (IF ttl.given THEN ttl.ms ELSE defaultTTL)

\* an invocation of get or set: what was asked, when, after which
\* invocations had completed, where it stands, what it read and what it
\* answered
Task(op, key, value, ttl, t, after, pc, result) ==
  [op |-> op, key |-> key, value |-> value, ttl |-> ttl, at |-> t,
   after |-> after, pc |-> pc, data |-> NoEntry, result |-> result]

\* mutant: an entry is still served at the instant it expires
InMemoryGet_notStrict(es, key, t) ==
  IF es[key].present /\ es[key].expires >= t
    THEN [result |-> es[key].value, entries |-> es]
  ELSE [result |-> NullValue, entries |-> [es EXCEPT ![key] = NoEntry]]

\* InMemoryCache.get at clock reading t: the answer and the map afterwards
InMemoryGet(es, key, t) ==
  IF es[key].present /\ es[key].expires > t
    THEN [result |-> es[key].value, entries |-> es]
  ELSE [result |-> NullValue, entries |-> [es EXCEPT ![key] = NoEntry]]

\* FsCache.get, readFile has answered at clock reading t: a missing file is
\* caught and answered with null, a live entry is answered, an expired one
\* goes to unlink (fs-cache.ts 18-25)
FsAfterRead(task, file, t) ==
  IF ~file.present THEN [task EXCEPT !.pc = "done", !.result = NullValue]
  ELSE IF file.expires > t
    THEN [task EXCEPT !.data = file, !.pc = "done", !.result = file.value]
  ELSE [task EXCEPT !.data = file, !.pc = "unlink"]

\* the arguments of the FsCache.set invocations followed
FsSetArgs ==
  {<<"yt:transcript:dQw4w9WgXcQ:", "v1", NoTTL>>,
   <<"yt:transcript:dQw4w9WgXcQ:", "v2", [given |-> TRUE, ms |-> 2]>>}

\* a file left by an earlier process and expired since
OldFile == [present |-> TRUE, value |-> "old", expires |-> 0]

\* InMemoryCache.set at clock reading t: the map afterwards
InMemorySet(es, key, value, ttl, t) ==
  [es EXCEPT ![key] = [present |-> TRUE, value |-> value, expires |-> expiry(ttl, t)]]

(* ------------------------------- state --------------------------------- *)

\* calls, cache: the calls of the library and the CacheStrategy they share;
\* fetched: what defaultFetch handed to fetch last; now, entries, tasks: the
\* clock, the entries and the get / set invocations of a cache adapter
VARIABLES calls, cache, fetched, now, entries, tasks

vars == <<calls, cache, fetched, now, entries, tasks>>

\* what the steps of the library's calls leave alone
aside == <<fetched, now, entries, tasks>>

Finished(c) == c.pc \in {"returned", "thrown"}

\* the cache holds nothing
AsideInit ==
  /\ fetched = NoFetch
  /\ now = 0
  /\ entries = [k \in AdapterKeys |-> NoEntry]
  /\ tasks = <<>>

InitEmpty ==
  /\ calls = [p \in Procs |-> IdleCall]
  /\ cache = [k \in Keys |-> Null]
  /\ AsideInit

Start(p, op, videoId, lang, hasCache) ==
  /\ calls[p].pc = "idle"
  /\ calls' = [calls EXCEPT ![p] = begin(op, videoId, lang, hasCache)]
  /\ UNCHANGED cache
  /\ UNCHANGED aside

PageResponse(p, r) ==
  /\ calls[p].pc = "page"
  /\ calls' = [calls EXCEPT ![p] = onPage(@, r)]
  /\ UNCHANGED cache
  /\ UNCHANGED aside

PlayerResponse(p, r) ==
  /\ calls[p].pc = "player"
  /\ calls' = [calls EXCEPT ![p] = onPlayer(@, r)]
  /\ UNCHANGED cache
  /\ UNCHANGED aside

CacheGet(p) ==
  /\ calls[p].pc = "cacheGet"
  /\ calls' = [calls EXCEPT ![p] =
                  onCacheGet(@, cache[cacheKey(calls[p].identifier, calls[p].lang)])]
  /\ UNCHANGED cache
  /\ UNCHANGED aside

\* the cache handed over fails the lookup
CacheGetFails(p) ==
  /\ calls[p].pc = "cacheGet"
  /\ calls' = [calls EXCEPT ![p] = onCacheGetError(@)]
  /\ UNCHANGED cache
  /\ UNCHANGED aside

TranscriptResponse(p, r) ==
  /\ calls[p].pc = "transcript"
  /\ calls' = [calls EXCEPT ![p] = onTranscript(@, r)]
  /\ UNCHANGED cache
  /\ UNCHANGED aside

CacheSet(p) ==
  /\ calls[p].pc = "cacheSet"
  /\ cache' = [cache EXCEPT ![cacheKey(calls[p].identifier, calls[p].lang)] =
                  JSONstringify(calls[p].segments)]
  /\ calls' = [calls EXCEPT ![p] = onCacheSet(@)]
  /\ UNCHANGED aside

\* the cache handed over fails the store and keeps what it held
CacheSetFails(p) ==
  /\ calls[p].pc = "cacheSet"
  /\ calls' = [calls EXCEPT ![p] = onCacheSetError(@)]
  /\ UNCHANGED cache
  /\ UNCHANGED aside

\* an entry's time to live runs out: from then on get answers null
Expire(k) ==
  /\ cache[k] # Null
  /\ cache' = [cache EXCEPT ![k] = Null]
  /\ UNCHANGED calls
  /\ UNCHANGED aside

\* defaultFetch is called with params
DefaultFetch(params) ==
  /\ fetched' = [called |-> TRUE, params |-> params, options |-> defaultFetch(params)]
  /\ UNCHANGED <<calls, cache, now, entries, tasks>>

\* the clock moves on
Tick ==
  /\ now < MaxTime
  /\ now' = now + 1
  /\ UNCHANGED <<calls, cache, fetched, entries, tasks>>

\* InMemoryCache: get and set have no await, each runs in one step
MemGet(key) ==
  /\ Len(tasks) < MaxOps
  /\ entries' = InMemoryGet(entries, key, now).entries
  /\ tasks' = Append(tasks, Task("get", key, Undef, NoTTL, now, DOMAIN tasks,
                                  "done", InMemoryGet(entries, key, now).result))
  /\ UNCHANGED <<calls, cache, fetched, now>>

MemSet(key, value, ttl) ==
  /\ Len(tasks) < MaxOps
  /\ entries' = InMemorySet(entries, key, value, ttl, now)
  /\ tasks' = Append(tasks, Task("set", key, value, ttl, now, DOMAIN tasks,
                                  "done", Undef))
  /\ UNCHANGED <<calls, cache, fetched, now>>

Done(S) == {i \in S : tasks[i].pc = "done"}

\* FsCache.get is called: readFile is issued
FsGet(key) ==
  /\ Len(tasks) < MaxOps
  /\ tasks' = Append(tasks, Task("get", key, Undef, NoTTL, now, Done(DOMAIN tasks),
                                  "readFile", Undef))
  /\ UNCHANGED <<calls, cache, fetched, now, entries>>

\* readFile answers
FsReadFile(i) ==
  /\ tasks[i].pc = "readFile"
  /\ tasks' = [tasks EXCEPT ![i] = FsAfterRead(@, entries[tasks[i].key], now)]
  /\ UNCHANGED <<calls, cache, fetched, now, entries>>

\* unlink removes the file of the key, whatever it holds by now
FsUnlink(i) ==
  /\ tasks[i].pc = "unlink"
  /\ entries' = [entries EXCEPT ![tasks[i].key] = NoEntry]
  /\ tasks' = [tasks EXCEPT ![i].pc = "done", ![i].result = NullValue]
  /\ UNCHANGED <<calls, cache, fetched, now>>

\* FsCache.set is called: expires is computed, writeFile is issued
FsSet(key, value, ttl) ==
  /\ Len(tasks) < MaxOps
  /\ tasks' = Append(tasks, Task("set", key, value, ttl, now, Done(DOMAIN tasks),
                                  "writeFile", Undef))
  /\ UNCHANGED <<calls, cache, fetched, now, entries>>

\* writeFile replaces the file of the key
FsWriteFile(i) ==
  /\ tasks[i].pc = "writeFile"
  /\ entries' = [entries EXCEPT ![tasks[i].key] =
                     [present |-> TRUE, value |-> tasks[i].value,
                      expires |-> expiry(tasks[i].ttl, tasks[i].at)]]
  /\ tasks' = [tasks EXCEPT ![i].pc = "done"]
  /\ UNCHANGED <<calls, cache, fetched, now>>

(* --------------------------- specifications ---------------------------- *)

\* Spec: two consecutive fetchTranscript / checkTranscriptAvailability calls
\* that share one cache; the second starts when the first has ended.
Consecutive(p) ==
  \A q \in Procs \ {p} :
     IF q < p THEN Finished(calls[q]) ELSE calls[q].pc = "idle"

\* the inputs of Spec: the same video as an identifier and as a link, and a
\* string that is neither; a page
\* that fails, challenges, lacks the key, carries it; a player response that
\* fails, lacks `captions` (playable or not), lists en and es; a payload
\* refused, empty, with one cue, with two cues around other text
SeqVideoInputs == {"dQw4w9WgXcQ", "https://youtu.be/dQw4w9WgXcQ", "invalid"}
SeqLangs == {Undef, "en"}
SeqPageResponses ==
  {r \in PageResponses : ~r.escapedKey /\ (r.ok \/ ~(r.recaptcha \/ r.inlineKey))
                                       /\ ~(r.recaptcha /\ r.inlineKey)}
SeqRenderer == [present |-> TRUE, isArray |-> TRUE, captionTracks |-> <<TrackEn, TrackEs>>]
SeqPlayerResponses ==
  PlayerResponsesOver(
    {[captions |-> FALSE, nested |-> NoRenderer, top |-> NoRenderer, status |-> st] :
        st \in Statuses}
    \cup {[captions |-> TRUE, nested |-> SeqRenderer, top |-> NoRenderer, status |-> "OK"]})
SeqBodies == {<<>>, <<CueA>>, <<CueB, Junk, CueA>>}
SeqTranscriptResponses ==
  {[ok |-> TRUE, status |-> 200, body |-> b] : b \in SeqBodies}
  \cup {[ok |-> FALSE, status |-> st, body |-> <<>>] : st \in {429, 404}}
SeqKeys ==
  {cacheKey(i, l) : i \in {retrieveVideoId(v) : v \in SeqVideoInputs} \ {Undef},
                    l \in SeqLangs}

\* the cache handed over holds at most one entry
Init ==
  /\ calls = [p \in Procs |-> IdleCall]
  /\ \E k \in SeqKeys, v \in PreloadedValues :
        cache = [kk \in Keys |-> IF kk = k THEN v ELSE Null]
  /\ AsideInit

\* a call with config.cache starts when the calls before it have ended
StartNext(p, op, videoId, lang) ==
  /\ Consecutive(p)
  /\ Start(p, op, videoId, lang, TRUE)

Next ==
  \/ \E p \in Procs, op \in Ops, v \in SeqVideoInputs, l \in SeqLangs :
       StartNext(p, op, v, l)
  \/ \E p \in Procs, r \in SeqPageResponses : PageResponse(p, r)
  \/ \E p \in Procs, r \in SeqPlayerResponses : PlayerResponse(p, r)
  \/ \E p \in Procs : CacheGet(p)
  \/ \E p \in Procs : CacheGetFails(p)
  \/ \E p \in Procs, r \in SeqTranscriptResponses : TranscriptResponse(p, r)
  \/ \E p \in Procs : CacheSet(p)
  \/ \E p \in Procs : CacheSetFails(p)
  \/ \E k \in Keys : Expire(k)

Spec == Init /\ [][Next]_vars

\* SpecDiscovery: one call without a cache, over every input, every player
\* response and every payload within the bounds.
NextDiscovery ==
  \/ \E op \in Ops, v \in VideoInputs, l \in ReqLangs : Start(1, op, v, l, FALSE)
  \/ \E r \in PageResponses : PageResponse(1, r)
  \/ \E r \in PlayerResponses : PlayerResponse(1, r)
  \/ \E r \in TranscriptResponses : TranscriptResponse(1, r)

SpecDiscovery == InitEmpty /\ [][NextDiscovery]_vars

\* SpecKeys: two consecutive fetchTranscript calls that share a cache, empty
\* at first and keeping what it is given, for either of two videos and any
\* of three language settings; discovery succeeds and lists en and es.
KeyPageResponse == [ok |-> TRUE, recaptcha |-> FALSE, inlineKey |-> TRUE, escapedKey |-> FALSE]
KeyPlayerResponse ==
  [ok |-> TRUE,
   json |-> [captions |-> TRUE, nested |-> SeqRenderer, top |-> NoRenderer,
             status |-> "OK"]]

NextKeys ==
  \/ \E p \in Procs, v \in KeyVideoInputs, l \in KeyLangs :
       StartNext(p, "fetchTranscript", v, l)
  \/ \E p \in Procs : PageResponse(p, KeyPageResponse)
  \/ \E p \in Procs : PlayerResponse(p, KeyPlayerResponse)
  \/ \E p \in Procs : CacheGet(p)
  \/ \E p \in Procs, r \in SeqTranscriptResponses : TranscriptResponse(p, r)
  \/ \E p \in Procs : CacheSet(p)
  \/ \E p \in Procs : CacheSetFails(p)

SpecKeys == InitEmpty /\ [][NextKeys]_vars

\* SpecConcurrent: two fetchTranscript calls that share a cache, empty at
\* first, their steps interleaved in any order.  The transport answers a
\* request by what it asks for: every page carries the key; the first video
\* lists en and es, the second en only; the en payload of the first video has
\* two cues, one without duration, its es payload one cue; the payload of the
\* second video is refused.
TrackEnOther == [languageCode |-> "en", baseUrl |-> "https://t/other/en", url |-> Undef]

TransportPage(identifier) == KeyPageResponse

TransportPlayer(identifier) ==
  IF identifier = "dQw4w9WgXcQ" THEN KeyPlayerResponse
  ELSE [ok |-> TRUE,
        json |-> [captions |-> TRUE,
                  nested |-> [present |-> TRUE, isArray |-> TRUE,
                              captionTracks |-> <<TrackEnOther>>],
                  top |-> NoRenderer, status |-> "OK"]]

TransportTranscript(url) ==
  IF url = "https://t/en" THEN [ok |-> TRUE, status |-> 200, body |-> <<CueB, Junk, CueA>>]
  ELSE IF url = "https://t/es" THEN [ok |-> TRUE, status |-> 200, body |-> <<CueA>>]
  ELSE [ok |-> FALSE, status |-> 404, body |-> <<>>]

NextConcurrent ==
  \/ \E p \in Procs, v \in KeyVideoInputs, l \in ReqLangs \cup KeyLangs :
       Start(p, "fetchTranscript", v, l, TRUE)
  \/ \E p \in Procs : PageResponse(p, TransportPage(calls[p].identifier))
  \/ \E p \in Procs : PlayerResponse(p, TransportPlayer(calls[p].identifier))
  \/ \E p \in Procs : CacheGet(p)
  \/ \E p \in Procs :
       TranscriptResponse(p, TransportTranscript(calls[p].metadata.transcriptUrl))
  \/ \E p \in Procs : CacheSet(p)

SpecConcurrent == InitEmpty /\ [][NextConcurrent]_vars

\* SpecFetch: defaultFetch called with any params within FetchParams
NextFetch == \E params \in FetchParams : DefaultFetch(params)

SpecFetch == InitEmpty /\ [][NextFetch]_vars

\* SpecMemory: any sequence of up to MaxOps get and set invocations of an
\* InMemoryCache, the clock moving between them
NextMemory ==
  \/ Tick
  \/ \E k \in AdapterKeys : MemGet(k)
  \/ \E a \in SetArgs : MemSet(a[1], a[2], a[3])

SpecMemory == InitEmpty /\ [][NextMemory]_vars

\* SpecFs: up to MaxOps get and set invocations of one FsCache directory, in
\* flight together; the directory may hold an expired file from before.
InitFs ==
  /\ calls = [p \in Procs |-> IdleCall]
  /\ cache = [k \in Keys |-> Null]
  /\ fetched = NoFetch
  /\ now = 0
  /\ entries \in [AdapterKeys -> {NoEntry, OldFile}]
  /\ tasks = <<>>

NextFs ==
  \/ Tick
  \/ \E k \in AdapterKeys : FsGet(k)
  \/ \E i \in DOMAIN tasks : FsReadFile(i)
  \/ \E i \in DOMAIN tasks : FsUnlink(i)
  \/ \E a \in FsSetArgs : FsSet(a[1], a[2], a[3])
  \/ \E i \in DOMAIN tasks : FsWriteFile(i)

SpecFs == InitFs /\ [][NextFs]_vars

\* SpecPair: checkTranscriptAvailability (call 1) and fetchTranscript (call 2)
\* on the same argument and config, each page and player response handed to
\* both; fetchTranscript then goes on alone.
PairOps == <<"checkTranscriptAvailability", "fetchTranscript">>

PairStart(videoId, lang, hasCache) ==
  /\ \A p \in Procs : calls[p].pc = "idle"
  /\ calls' = [p \in Procs |-> begin(PairOps[p], videoId, lang, hasCache)]
  /\ UNCHANGED cache
  /\ UNCHANGED aside

PairPageResponse(r) ==
  /\ \A p \in Procs : calls[p].pc = "page"
  /\ calls' = [p \in Procs |-> onPage(calls[p], r)]
  /\ UNCHANGED cache
  /\ UNCHANGED aside

PairPlayerResponse(r) ==
  /\ \A p \in Procs : calls[p].pc = "player"
  /\ calls' = [p \in Procs |-> onPlayer(calls[p], r)]
  /\ UNCHANGED cache
  /\ UNCHANGED aside

PairTranscriptResponses ==
  {[ok |-> TRUE, status |-> 200, body |-> <<CueA>>],
   [ok |-> FALSE, status |-> 404, body |-> <<>>]}

NextPair ==
  \/ \E v \in VideoInputs, l \in ReqLangs, h \in BOOLEAN : PairStart(v, l, h)
  \/ \E r \in PageResponses : PairPageResponse(r)
  \/ \E r \in PlayerResponses : PairPlayerResponse(r)
  \/ CacheGet(2)
  \/ CacheGetFails(2)
  \/ \E r \in PairTranscriptResponses : TranscriptResponse(2, r)
  \/ CacheSet(2)
  \/ CacheSetFails(2)

SpecPair == InitEmpty /\ [][NextPair]_vars

\* SpecResolve: one call up to its first await, over bare identifiers, links
\* of the known shapes, links to elsewhere, and what is left of them when the
\* identifier is too short, too long or missing.
OtherPrefixes == {"", "https://example.com/"}
OtherTexts == {"short", "invalid", ""}
ResolverInputs ==
  {pre \o id \o suf : pre \in UrlPrefixes \cup OtherPrefixes,
                       id \in IdTexts \cup OtherTexts, suf \in UrlSuffixes}

NextResolve ==
  \E op \in Ops, v \in ResolverInputs, l \in ReqLangs : Start(1, op, v, l, FALSE)

SpecResolve == InitEmpty /\ [][NextResolve]_vars

(* ------------------------------ properties ----------------------------- *)

\* the renderer the two nesting paths lead to, and its tracks
Located(json) ==
  IF json.captions /\ json.nested.present THEN json.nested ELSE json.top
LocatedTracks(json) == Located(json).captionTracks
HasTracks(json) ==
  Located(json).present /\ Located(json).isArray /\ LocatedTracks(json) # <<>>
\* no renderer under either path
NoStructure(json) == ~(json.captions /\ json.nested.present) /\ ~json.top.present
\* no path holds a track
ZeroTracks(json) ==
  \A R \in {json.nested, json.top} :
     ~(R.present /\ R.isArray /\ R.captionTracks # <<>>)
\* the language codes of the tracks, in order, without the missing ones
Codes(T) ==
  SelectSeq([i \in DOMAIN T |-> T[i].languageCode], LAMBDA x : x \notin {Undef, ""})
\* the first track of the requested language (the first track when none is
\* requested), 0 when there is none
FirstMatch(T, lang) ==
  IF lang \in {Undef, ""} THEN 1
  ELSE IF \E i \in DOMAIN T : T[i].languageCode = lang
    THEN CHOOSE i \in DOMAIN T :
           /\ T[i].languageCode = lang
           /\ \A j \in 1..(i - 1) : T[j].languageCode # lang
  ELSE 0
Count(q, x) == Cardinality({i \in DOMAIN q : q[i] = x})

\* C1: a checkTranscriptAvailability call never issues the transcript request;
\* its requests are the page request and then the player request, at most.
C1_NoTranscriptFetch ==
  \A p \in Procs :
     calls[p].op = "checkTranscriptAvailability" =>
       calls[p].requests \in {<<>>, <<"page">>, <<"page", "player">>}

C1_Witness ==
  \E p \in Procs :
     /\ calls[p].op = "checkTranscriptAvailability"
     /\ calls[p].pc = "returned"
     /\ calls[p].requests = <<"page", "player">>

C3_DisabledOnlyIfPlayable ==
  \A p \in Procs :
     calls[p].error.kind = "TranscriptsDisabled" =>
       calls[p].player.json.status = "OK"

\* C3, amended: a call that fails with TranscriptsDisabled saw a successful
\* player response that either reports the video as playable or carries
\* `captions` and a track-list renderer whose captionTracks is empty or no array.
C3_DisabledCause ==
  \A p \in Procs :
     LET c == calls[p]
         json == c.player.json
     IN  c.error.kind = "TranscriptsDisabled" =>
           /\ c.last = "player" /\ c.player.ok
           /\ \/ json.status = "OK"
              \/ /\ json.captions
                 /\ Located(json).present
                 /\ ~Located(json).isArray \/ LocatedTracks(json) = <<>>

C3_Witness ==
  \E p \in Procs :
     /\ calls[p].error.kind = "TranscriptsDisabled"
     /\ calls[p].player.json.status # "OK"
     /\ calls[p].player.json.captions

\* C4: when a path of the player response leads to a non-empty captionTracks
\* array, the call does not fail for a missing captions structure: it goes on
\* to the language selection, which fails only with LanguageNotAvailable or,
\* for a track without URL, TranscriptNotAvailable.
C4_EitherPath ==
  \A p \in Procs :
     LET c == calls[p]
         json == c.player.json
     IN  c.last = "player" /\ c.player.ok /\ HasTracks(json) =>
           /\ c.error.kind # "TranscriptsDisabled"
           /\ c.error.kind = "TranscriptNotAvailable" =>
                \E i \in DOMAIN LocatedTracks(json) :
                   ~Truthy(trackUrl(LocatedTracks(json)[i]))

\* C5: the selected track is the first one whose languageCode is the requested
\* language, the first track when no language is requested; tracks [en, es]
\* and no language give selectedLanguage en and availableLanguages [en, es].
C5_Selection ==
  \A p \in Procs :
     LET c == calls[p]
         json == c.player.json
         T == LocatedTracks(json)
         i == FirstMatch(T, c.lang)
     IN  c.last = "player" /\ c.player.ok /\ json.captions /\ HasTracks(json) =>
           IF i = 0 THEN c.pc = "thrown" /\ c.error.kind = "LanguageNotAvailable"
           ELSE IF ~Truthy(trackUrl(T[i]))
             THEN c.pc = "thrown" /\ c.error.kind = "TranscriptNotAvailable"
           ELSE /\ c.pc # "thrown"
                /\ c.metadata.selectedLanguage = T[i].languageCode
                /\ c.metadata.transcriptUrl = stripFmt(trackUrl(T[i]))
                /\ T = <<TrackEn, TrackEs>> /\ c.lang = Undef =>
                     /\ c.metadata.selectedLanguage = "en"
                     /\ c.metadata.availableLanguages = <<"en", "es">>

C5_Witness ==
  \E p \in Procs :
     /\ calls[p].last = "player" /\ calls[p].pc # "thrown"
     /\ calls[p].lang = "en"
     /\ calls[p].player.json.captions
     /\ LocatedTracks(calls[p].player.json) = <<TrackEs, TrackEn, TrackNoUrl>>
     /\ calls[p].metadata.selectedLanguage = "en"
     /\ calls[p].metadata.transcriptUrl = "https://t/en"

\* C6: a requested language that no track carries fails with
\* LanguageNotAvailable holding the requested language, the resolved identifier
\* and the codes of all the tracks in order, the missing ones dropped; and
\* LanguageNotAvailable arises in no other case.
C6_LanguageError ==
  \A p \in Procs :
     LET c == calls[p]
         json == c.player.json
         T == LocatedTracks(json)
         absent == /\ c.last = "player" /\ c.player.ok
                   /\ json.captions /\ HasTracks(json)
                   /\ Truthy(c.lang)
                   /\ \A i \in DOMAIN T : T[i].languageCode # c.lang
     IN  /\ absent =>
              /\ c.pc = "thrown"
              /\ c.error = [kind |-> "LanguageNotAvailable",
                            identifier |-> retrieveVideoId(c.videoId),
                            lang |-> c.lang, availableLanguages |-> Codes(T)]
         /\ c.error.kind = "LanguageNotAvailable" => absent

C6_Witness ==
  \E p \in Procs :
     /\ calls[p].error.kind = "LanguageNotAvailable"
     /\ calls[p].lang = "fr"
     /\ LocatedTracks(calls[p].player.json) = <<TrackEn, TrackNoLc, TrackEs>>
     /\ calls[p].error.availableLanguages = <<"en", "es">>

\* C7: after a successful discovery selectedLanguage is one of
\* availableLanguages.
C7_SelectedIsAvailable ==
  \A p \in Procs :
     LET c == calls[p]
     IN  c.last = "player" /\ c.pc # "thrown" =>
           \E i \in DOMAIN c.metadata.availableLanguages :
              c.metadata.availableLanguages[i] = c.metadata.selectedLanguage

\* C8: the segments a fetchTranscript call returns are never an empty sequence.
C8_NonEmptyResult ==
  \A p \in Procs :
     calls[p].op = "fetchTranscript" /\ calls[p].pc = "returned" =>
       calls[p].segments # <<>>

\* C9: when a fetchTranscript call has fetched, parsed and stored a transcript,
\* the next fetchTranscript call for the same video and language, with the
\* entry not expired when it is looked up and the cache not failing, returns the stored segments, and
\* the two calls together issue one transcript request.
C9_CachingIdempotence ==
  LET a == calls[1]
      b == calls[2]
  IN  /\ a.op = "fetchTranscript" /\ a.pc = "returned" /\ a.last = "cacheSet"
      /\ b.op = "fetchTranscript" /\ Finished(b)
      /\ b.identifier = a.identifier /\ b.lang = a.lang
      /\ b.last \in {"cacheGet", "transcript", "cacheSet"} =>
           b.cached = JSONstringify(a.segments)
      /\ b.last \notin {"cacheGetError", "cacheSetError"}
      => /\ b.pc = "returned"
         /\ b.segments = JSONstringify(a.segments).items
         /\ Count(a.requests, "transcript") + Count(b.requests, "transcript") = 1

\* C10: a fetchTranscript call served from the cache has issued neither the
\* page request nor the player request.
C10_CacheHitShortCircuits ==
  \A p \in Procs :
     calls[p].pc = "returned" /\ calls[p].fromCache =>
       /\ Count(calls[p].requests, "page") = 0
       /\ Count(calls[p].requests, "player") = 0

\* C11: a fetchTranscript call whose cache.get failed goes on as after a miss:
\* it issues the transcript request and no error reaches the caller from the
\* lookup.
C11_LookupErrorIsMiss ==
  \A p \in Procs :
     calls[p].last = "cacheGetError" =>
       /\ calls[p].pc = "transcript"
       /\ calls[p].error = NoError
       /\ Count(calls[p].requests, "transcript") = 1

\* the segments the code makes of the payload the call received
Parsed(c) == parseTranscript(c.payload.body, c.lang, c.metadata.selectedLanguage)

\* C12: a fetchTranscript call whose cache.set failed after a successful,
\* non-empty parse returns the parsed segments and no error.
C12_StoreErrorSwallowed ==
  \A p \in Procs :
     calls[p].last = "cacheSetError" =>
       /\ calls[p].pc = "returned"
       /\ calls[p].error = NoError
       /\ calls[p].segments = Parsed(calls[p])
       /\ calls[p].segments # <<>>

C12_Witness ==
  \E p \in Procs :
     /\ calls[p].last = "cacheSetError" /\ calls[p].pc = "returned"
     /\ Len(calls[p].segments) = 2

Unparsable(str) == str.kind = "string" /\ JSONparse(str).threw

C13_AfterLookup ==
  \A p \in Procs :
     LET c == calls[p]
     IN  ( /\ Unparsable(c.cached)
           /\ c.last \in {"cacheGet", "transcript", "cacheSet", "cacheSetError"} )
         => /\ ~c.fromCache
            /\ Count(c.requests, "transcript") = 1
            /\ c.last = "cacheGet" => c.pc = "transcript"
            /\ c.pc = "returned" => c.segments = Parsed(c) /\ c.segments # <<>>

C13_Store ==
  \A p \in Procs :
     ( /\ Unparsable(calls[p].cached)
       /\ calls[p].pc = "cacheSet" /\ calls'[p].last = "cacheSet" )
     => /\ cache'[cacheKey(calls[p].identifier, calls[p].lang)]
              = JSONstringify(calls'[p].segments)
        /\ calls'[p].pc = "returned"
        /\ calls'[p].segments = calls[p].segments

\* C13: a fetchTranscript call whose cache.get answered a value that does not
\* parse is not served from the cache and issues the transcript request; when
\* the parse of the payload succeeds with segments, the store writes them
\* under the key of the lookup, and the call returns them.
C13_UnparsableIsMiss == []C13_AfterLookup /\ [][C13_Store]_vars

C13_Witness ==
  \E p \in Procs :
     LET c == calls[p]
     IN  /\ Unparsable(c.cached) /\ c.pc = "returned" /\ c.last = "cacheSet"
         /\ cache[cacheKey(c.identifier, c.lang)] = JSONstringify(c.segments)
         /\ c.segments # <<>>

Stages == <<"page", "player", "transcript">>

IsPrefix(q, r) == Len(q) <= Len(r) /\ \A i \in DOMAIN q : q[i] = r[i]

\* the steps after which a call has received the response to its n-th request
Received(n) ==
  CASE n = 0 -> {"begin", "page", "player", "cacheGet", "cacheGetError",
                 "transcript", "cacheSet", "cacheSetError"}
    [] n = 1 -> {"page", "player", "cacheGet", "cacheGetError", "transcript",
                 "cacheSet", "cacheSetError"}
    [] n = 2 -> {"player", "cacheGet", "cacheGetError", "transcript",
                 "cacheSet", "cacheSetError"}
    [] OTHER -> {"transcript", "cacheSet", "cacheSetError"}

C14_Requests ==
  \A p \in Procs :
     LET c == calls[p]
         n == Len(c.requests)
     IN  /\ IsPrefix(c.requests, Stages)
         /\ n > 0 => c.last \in Received(n - 1)
         /\ c.pc \in {"page", "player", "transcript"} =>
               n > 0 /\ c.requests[n] = c.pc /\ c.last \notin Received(n)
         /\ c.pc = "thrown" =>
               /\ c.error # NoError
               /\ c.error.kind = "InvalidVideoId" <=> c.last = "begin"
               /\ c.last = "begin" => n = 0
               /\ c.last = "page" => n = 1
               /\ c.last \in {"player", "cacheGetError"} => n = 2
               /\ c.last = "transcript" => n = 3

C14_Steps ==
  \A p \in Procs :
     /\ calls[p].pc = "thrown" => calls'[p] = calls[p]
     /\ calls'[p].requests # calls[p].requests =>
           /\ Len(calls'[p].requests) = Len(calls[p].requests) + 1
           /\ calls[p].pc \in {"idle", "page", "player", "cacheGet"}
           /\ calls'[p].pc = calls'[p].requests[Len(calls'[p].requests)]

\* C14: the requests of a call are a prefix of page, player, transcript, each
\* issued in the step that received the response to the one before it and
\* none twice; a call that failed holds an error for its caller, issued no
\* request past the stage that failed (none when the identifier did not
\* resolve), and issues none afterwards.
C14_SequentialRequests == []C14_Requests /\ [][C14_Steps]_vars

C14_Witness ==
  /\ calls[1].pc = "thrown" /\ calls[1].error.kind = "InvalidVideoId"
  /\ calls[1].requests = <<>>
  /\ calls[2].pc = "thrown" /\ calls[2].last = "transcript"
  /\ calls[2].requests = Stages

DiscoverySteps == {"begin", "page", "player"}

\* the call has left discovery with the metadata of a track
PastDiscovery(c) ==
  \/ c.pc \in {"cacheGet", "transcript", "cacheSet", "returned"}
  \/ c.pc = "thrown" /\ c.last \notin DiscoverySteps

\* C15: with the same argument, config and page and player responses,
\* checkTranscriptAvailability fails with an error exactly when fetchTranscript
\* fails in discovery, and then with the same error; it succeeds exactly
\* when fetchTranscript has gone on to the cache lookup or the transcript
\* request, and then with the metadata fetchTranscript goes on with.
C15_SameClassification ==
  LET a == calls[1]
      b == calls[2]
  IN  /\ a.pc = "thrown" <=> b.pc = "thrown" /\ b.last \in DiscoverySteps
      /\ a.pc = "thrown" => a.error = b.error /\ a.error # NoError
      /\ a.pc = "returned" <=> PastDiscovery(b)
      /\ a.pc = "returned" =>
            /\ a.availability.available
            /\ a.availability.videoId = b.metadata.identifier
            /\ a.availability.transcriptUrl = b.metadata.transcriptUrl
            /\ a.availability.selectedLanguage = b.metadata.selectedLanguage
            /\ a.availability.availableLanguages = b.metadata.availableLanguages

C15_Witness ==
  /\ calls[1].op = "checkTranscriptAvailability" /\ calls[2].op = "fetchTranscript"
  /\ calls[1].pc = "thrown" /\ calls[2].pc = "thrown"
  /\ calls[1].error.kind = "LanguageNotAvailable"
  /\ calls[2].error = calls[1].error

\* the identifier a link of a known shape embeds, Undef for any other string
Embedded(videoId) ==
  IF \E pre \in UrlPrefixes, id \in IdTexts, suf \in UrlSuffixes :
        videoId = pre \o id \o suf
    THEN CHOOSE id \in IdTexts :
            \E pre \in UrlPrefixes, suf \in UrlSuffixes : videoId = pre \o id \o suf
  ELSE Undef

\* C16: a call resolves an input of 11 characters to the input itself, a link
\* of a known shape to the 11 characters it embeds, and fails with
\* InvalidVideoId, before any request, on every other string; an identifier
\* it resolved has 11 characters.
C16_Resolver ==
  \A p \in Procs :
     LET c == calls[p]
     IN  c.last = "begin" =>
           /\ Len(c.videoId) = 11 => c.pc = "page" /\ c.identifier = c.videoId
           /\ Len(c.videoId) # 11 /\ Embedded(c.videoId) # Undef =>
                 c.pc = "page" /\ c.identifier = Embedded(c.videoId)
           /\ Len(c.videoId) # 11 /\ Embedded(c.videoId) = Undef =>
                 /\ c.pc = "thrown" /\ c.error.kind = "InvalidVideoId"
                 /\ c.requests = <<>>
           /\ c.pc # "thrown" => Len(c.identifier) = 11

C16_Witness ==
  \E p \in Procs :
     /\ calls[p].last = "begin"
     /\ calls[p].videoId = "https://www.youtube.com/watch?v=jNQXAC9IVRw&t=42s"
     /\ calls[p].identifier = "jNQXAC9IVRw"

\* C17: a page response with a non-success status fails with
\* VideoUnavailable whatever its body; a successful one with the recaptcha
\* marker fails with TooManyRequests even when it carries a key; a successful
\* one without marker and without a key in either form fails with
\* TranscriptNotAvailable; any other yields its key (the inline form before
\* the escaped one) and the player request is issued with it.
C17_PagePrecedence ==
  \A p \in Procs :
     LET c == calls[p]
         r == c.page
         hasKey == r.inlineKey \/ r.escapedKey
     IN  c.last = "page" =>
           /\ ~r.ok => c.pc = "thrown" /\ c.error.kind = "VideoUnavailable"
           /\ r.ok /\ r.recaptcha =>
                 c.pc = "thrown" /\ c.error.kind = "TooManyRequests"
           /\ r.ok /\ ~r.recaptcha /\ ~hasKey =>
                 c.pc = "thrown" /\ c.error.kind = "TranscriptNotAvailable"
           /\ r.ok /\ ~r.recaptcha /\ hasKey =>
                 /\ c.pc = "player" /\ c.error = NoError
                 /\ c.requests = <<"page", "player">>
                 /\ c.apiKey = IF r.inlineKey THEN "inlineKey" ELSE "escapedKey"
           /\ c.pc = "thrown" => c.requests = <<"page">> /\ c.apiKey = Undef

C17_Witness ==
  \E p \in Procs :
     /\ calls[p].last = "page" /\ calls[p].page.ok
     /\ calls[p].page.recaptcha /\ calls[p].page.inlineKey
     /\ calls[p].error.kind = "TooManyRequests"

\* the cue records of a payload, in order
Cues(body) == SelectSeq(body, LAMBDA chunk : chunk.cue)

\* C18: a transcript response with status 429 fails with TooManyRequests, one
\* with any other non-success status fails with TranscriptNotAvailable, and a
\* successful one whose payload holds no cue record fails with
\* TranscriptNotAvailable; a successful one with a cue record does not fail.
C18_TranscriptStage ==
  \A p \in Procs :
     LET c == calls[p]
         r == c.payload
     IN  c.last = "transcript" =>
           /\ ~r.ok /\ r.status = 429 =>
                 c.pc = "thrown" /\ c.error.kind = "TooManyRequests"
           /\ ~r.ok /\ r.status # 429 =>
                 c.pc = "thrown" /\ c.error.kind = "TranscriptNotAvailable"
           /\ r.ok /\ (\A i \in DOMAIN r.body : ~r.body[i].cue) =>
                 c.pc = "thrown" /\ c.error.kind = "TranscriptNotAvailable"
           /\ r.ok /\ (\E i \in DOMAIN r.body : r.body[i].cue) =>
                 c.pc # "thrown" /\ c.error = NoError

C18_Witness ==
  \E p \in Procs :
     /\ calls[p].last = "transcript" /\ calls[p].payload.ok
     /\ calls[p].payload.body = <<Junk, Junk>>
     /\ calls[p].error.kind = "TranscriptNotAvailable"

\* C19: a payload with N >= 1 cue records is parsed into N segments in the
\* order of the records, the i-th with the offset, duration and text of the
\* first, second and third field of the i-th record, and with the language
\* of the config, or the language code of the selected track when the config
\* names none.
C19_Parse ==
  \A p \in Procs :
     LET c == calls[p]
         cues == Cues(c.payload.body)
     IN  c.last = "transcript" /\ c.payload.ok /\ Len(cues) >= 1 =>
           /\ c.pc # "thrown"
           /\ Len(c.segments) = Len(cues)
           /\ \A i \in DOMAIN cues :
                 /\ c.segments[i].offset = parseFloat(cues[i].start)
                 /\ c.segments[i].duration = parseFloat(cues[i].dur)
                 /\ c.segments[i].text = cues[i].text
                 /\ c.segments[i].lang = IF c.lang # Undef THEN c.lang
                                         ELSE c.metadata.selectedLanguage

C19_Witness ==
  \E p \in Procs :
     LET c == calls[p]
     IN  /\ c.last = "transcript" /\ c.lang = Undef
         /\ c.payload.body = <<CueB, Junk, CueA>>
         /\ Len(c.segments) = 2
         /\ c.segments[2].text = "hi" /\ c.segments[2].lang = "es"

\* config.lang as the key holds it
LangOrEmpty(lang) == IF lang = Undef THEN "" ELSE lang

\* C20: the cache key tells apart any two pairs of identifier and language
\* (or none); with a cache that was empty before the two calls, the second
\* is served from it only what the first stored for the same resolved
\* identifier and the same language setting, and is served that whenever the
\* first stored it, whether the video was named by identifier or by link.
C20_KeyInjective ==
  LET a == calls[1]
      b == calls[2]
      stored == a.pc = "returned" /\ a.last = "cacheSet"
      same == a.identifier = b.identifier /\ LangOrEmpty(a.lang) = LangOrEmpty(b.lang)
  IN  /\ \A i1 \in Identifiers, i2 \in Identifiers, l1 \in KeyLangs, l2 \in KeyLangs :
            cacheKey(i1, l1) = cacheKey(i2, l2) =>
              i1 = i2 /\ LangOrEmpty(l1) = LangOrEmpty(l2)
      /\ \A v1 \in KeyVideoInputs, v2 \in KeyVideoInputs, l \in KeyLangs :
            retrieveVideoId(v1) = retrieveVideoId(v2) =>
              cacheKey(retrieveVideoId(v1), l) = cacheKey(retrieveVideoId(v2), l)
      /\ ~a.fromCache
      /\ b.fromCache =>
            stored /\ same /\ b.segments = JSONparse(JSONstringify(a.segments)).value
      /\ b.last \in {"cacheGet", "transcript", "cacheSet", "cacheSetError"} =>
            (b.fromCache <=> stored /\ same)

C20_Witness ==
  /\ calls[1].pc = "returned" /\ calls[1].last = "cacheSet"
  /\ calls[1].lang = "en"
  /\ calls[2].identifier = calls[1].identifier /\ calls[2].lang = Undef
  /\ calls[2].pc = "returned" /\ ~calls[2].fromCache
  /\ calls[2].cached = Null

\* C21: a checkTranscriptAvailability call returns exactly when its discovery
\* succeeded; what it returns has available = true, the resolved identifier
\* as videoId, and the transcript URL, selected language and available
\* languages of the discovery; a call that has not returned holds no
\* availability value, and one that failed holds an error.
C21_AvailabilityOnlyOnSuccess ==
  \A p \in Procs :
     LET c   == calls[p]
         out == playerOutcome(c.identifier, c.lang, c.player)
     IN  c.op = "checkTranscriptAvailability" =>
           /\ c.pc = "returned" <=> c.last = "player" /\ out.error = NoError
           /\ c.pc = "returned" =>
                 /\ c.error = NoError
                 /\ c.availability.available
                 /\ c.availability.videoId = retrieveVideoId(c.videoId)
                 /\ c.availability.transcriptUrl = out.metadata.transcriptUrl
                 /\ c.availability.selectedLanguage = out.metadata.selectedLanguage
                 /\ c.availability.availableLanguages = out.metadata.availableLanguages
           /\ c.pc # "returned" => c.availability = NoAvailability
           /\ c.pc = "thrown" => c.error # NoError
           /\ c.pc \in {"idle", "page", "player", "returned", "thrown"}

C21_Witness ==
  \E p \in Procs :
     /\ calls[p].op = "checkTranscriptAvailability" /\ calls[p].pc = "returned"
     /\ calls[p].videoId = "https://youtu.be/dQw4w9WgXcQ"
     /\ calls[p].availability.videoId = "dQw4w9WgXcQ"
     /\ calls[p].availability.availableLanguages = <<"en", "es">>

\* fetchTranscript(videoId) with config.lang = lang run on its own against
\* the transport of SpecConcurrent and an empty cache
Alone(videoId, lang) ==
  LET c0 == begin("fetchTranscript", videoId, lang, TRUE)
      c1 == IF c0.pc = "page" THEN onPage(c0, TransportPage(c0.identifier)) ELSE c0
      c2 == IF c1.pc = "player"
              THEN onPlayer(c1, TransportPlayer(c1.identifier)) ELSE c1
      c3 == IF c2.pc = "cacheGet" THEN onCacheGet(c2, Null) ELSE c2
      c4 == IF c3.pc = "transcript"
              THEN onTranscript(c3, TransportTranscript(c3.metadata.transcriptUrl))
              ELSE c3
  IN  IF c4.pc = "cacheSet" THEN onCacheSet(c4) ELSE c4

\* C22, as claimed: of two concurrent fetchTranscript calls over a cache that
\* was empty, each ends as it would on its own, with the same segments or the
\* same error, and has issued every request it would issue on its own.
C22_Independent ==
  \A p \in Procs :
     LET c == calls[p]
         alone == Alone(c.videoId, c.lang)
     IN  Finished(c) =>
           /\ c.pc = alone.pc
           /\ c.error = alone.error
           /\ c.segments = alone.segments
           /\ c.requests = alone.requests

\* C22, amended: each call ends as it would on its own, with the same error
\* or with the same segments, either as parsed or as they come back from the
\* cache's JSON text; it has issued its own page and player request, and its
\* own transcript request unless it was served the entry the other call
\* stored for the same identifier and language.
C22_IndependentButForHits ==
  \A p \in Procs :
     LET c == calls[p]
         o == calls[3 - p]
         alone == Alone(c.videoId, c.lang)
     IN  Finished(c) =>
           /\ c.pc = alone.pc
           /\ c.error = alone.error
           /\ ~c.fromCache =>
                 c.segments = alone.segments /\ c.requests = alone.requests
           /\ c.fromCache =>
                 /\ c.segments = JSONparse(JSONstringify(alone.segments)).value
                 /\ c.requests = <<"page", "player">>
                 /\ alone.requests = Stages
                 /\ o.pc = "returned" /\ o.last = "cacheSet"
                 /\ o.identifier = c.identifier /\ o.lang = c.lang

C22_Witness ==
  /\ calls[1].pc = "returned" /\ calls[1].last = "cacheSet"
  /\ calls[2].pc = "returned" /\ calls[2].fromCache
  /\ calls[2].videoId # calls[1].videoId
  /\ calls[2].segments # Alone(calls[2].videoId, calls[2].lang).segments

Set(x) == x # Undef /\ x # ""

\* C23: the request defaultFetch builds goes to the url given; a header
\* passed explicitly has the value passed; without an explicit one,
\* User-Agent is the userAgent given, or the default browser string, and
\* Accept-Language is there exactly when lang is set, with lang as its value;
\* no other header is added; the method is the one given, GET when none is;
\* a body is attached only to a request that is not a GET, and is the body
\* given; a POST carries the body given.
C23_DefaultFetch ==
  LET p == fetched.params
      o == fetched.options
  IN  fetched.called =>
        /\ o.url = p.url
        /\ \A h \in HeaderNames : p.headers[h] # Undef => o.headers[h] = p.headers[h]
        /\ p.headers["User-Agent"] = Undef =>
              o.headers["User-Agent"] =
                 IF Set(p.userAgent) THEN p.userAgent ELSE DEFAULT_USER_AGENT
        /\ p.headers["Accept-Language"] = Undef =>
              /\ o.headers["Accept-Language"] # Undef <=> Set(p.lang)
              /\ Set(p.lang) => o.headers["Accept-Language"] = p.lang
        /\ p.headers["Content-Type"] = Undef => o.headers["Content-Type"] = Undef
        /\ o.method = IF p.method = Undef THEN "GET" ELSE p.method
        /\ o.body # Undef => o.method # "GET" /\ o.body = p.body
        /\ o.method = "POST" /\ Set(p.body) => o.body = p.body

C23_Witness ==
  /\ fetched.called
  /\ fetched.params.method = Undef /\ fetched.params.body = "data"
  /\ fetched.options.method = "GET" /\ fetched.options.body = Undef
  /\ fetched.params.userAgent = "Test Agent"
  /\ fetched.params.headers["User-Agent"] = "Explicit Agent"
  /\ fetched.options.headers["User-Agent"] = "Explicit Agent"
  /\ fetched.params.lang = Undef
  /\ fetched.options.headers["Accept-Language"] = Undef

\* the step is the store of call p: its payload parsed into segments, and
\* their JSON text goes under the key of the call
StoreBy(p) ==
  LET c == calls[p]
      k == cacheKey(c.identifier, c.lang)
  IN  /\ c.op = "fetchTranscript" /\ c.pc = "cacheSet" /\ c.last = "transcript"
      /\ ~c.fromCache /\ c.error = NoError
      /\ c.segments = Parsed(c) /\ c.segments # <<>>
      /\ cache' = [cache EXCEPT ![k] = JSONstringify(c.segments)]
      /\ calls'[p].pc = "returned" /\ calls'[p].last = "cacheSet"

C24_Steps ==
  /\ cache' # cache /\ calls' # calls => \E p \in Procs : StoreBy(p)
  /\ \A p \in Procs :
        /\ calls'[p] # calls[p] /\ calls[p].last = "cacheSet" => FALSE
        /\ ( /\ calls'[p] # calls[p]
              /\ \/ calls'[p].op = "checkTranscriptAvailability"
                 \/ calls'[p].pc = "thrown"
                 \/ calls'[p].fromCache )
           => cache' = cache

\* C24: a step of a call changes the cache only as the store of a
\* fetchTranscript call whose payload parsed into segments, writing their
\* JSON text under the call's key; a call stores at most once, as its last
\* step; no step of a checkTranscriptAvailability call, no step that fails a
\* call and no return from the cache changes the cache.
C24_WrittenOnlyOnSuccess == [][C24_Steps]_vars

C24_Witness ==
  \E p \in Procs :
     LET c == calls[p]
         o == calls[3 - p]
     IN  /\ c.op = "fetchTranscript" /\ c.pc = "returned" /\ c.last = "cacheSet"
         /\ cache[cacheKey(c.identifier, c.lang)] = JSONstringify(c.segments)
         /\ o.op = "checkTranscriptAvailability" /\ o.pc = "returned"
         /\ o.identifier = c.identifier

\* the latest set of the key before invocation i, 0 for none
LastSet(i) ==
  LET S == {j \in 1..(i - 1) : tasks[j].op = "set" /\ tasks[j].key = tasks[i].key}
  IN  IF S = {} THEN 0 ELSE CHOOSE j \in S : \A m \in S : m <= j

\* C25: a get of an InMemoryCache answers the value of the latest set of its
\* key exactly when that set's time plus its ttl (the default TTL when none
\* was given) is greater than the time of the get; otherwise it answers null,
\* and the key has no entry once it has.
C25_InMemoryExpiry ==
  \A i \in DOMAIN tasks :
     LET g == tasks[i]
         j == LastSet(i)
         live == j # 0 /\ tasks[j].at + (IF tasks[j].ttl.given THEN tasks[j].ttl.ms
                                         ELSE defaultTTL) > g.at
     IN  g.op = "get" =>
           /\ live => g.result = tasks[j].value
           /\ ~live => g.result = NullValue
           /\ ~live /\ i = Len(tasks) => ~entries[g.key].present

C25_Witness ==
  /\ Len(tasks) = 3
  /\ tasks[1].op = "set" /\ tasks[1].ttl = NoTTL /\ tasks[1].at = 0
  /\ tasks[2].op = "get" /\ tasks[2].key = tasks[1].key /\ tasks[2].at = 0
  /\ tasks[2].result = tasks[1].value
  /\ tasks[3].op = "get" /\ tasks[3].key = tasks[1].key /\ tasks[3].at = 1
  /\ tasks[3].result = NullValue

\* C26: when a get and a set of one key have both completed, the set being
\* the only one made of the key, a get called after that answers the value
\* set, as long as the entry set has not expired.
C26_SetSurvivesCleanup ==
  \A g \in DOMAIN tasks, s \in DOMAIN tasks, h \in DOMAIN tasks :
     ( /\ tasks[g].op = "get" /\ tasks[s].op = "set" /\ tasks[h].op = "get"
       /\ tasks[g].key = tasks[s].key /\ tasks[h].key = tasks[s].key
       /\ \A j \in DOMAIN tasks :
             tasks[j].op = "set" /\ tasks[j].key = tasks[s].key => j = s
       /\ {g, s} \subseteq tasks[h].after
       /\ tasks[h].pc = "done"
       /\ expiry(tasks[s].ttl, tasks[s].at) > now )
     => tasks[h].result = tasks[s].value

====
